---------------------------- MODULE Spec2Model ----------------------------
(***************************************************************************)
(* Model of the xmus-router matching tree (src/radixtree.go) and of the    *)
(* generic Router facade that serves requests from it, of the first router *)
(* (Register and ServeHTTP of src/router.go, validatePath of               *)
(* src/constants.go), of the PACT router (src/pact.go,                     *)
(* src/pact_advanced.go) alone and under two goroutines, and of the        *)
(* byte-level tree (src/handler_test.go), call by call.                    *)
(*                                                                         *)
(* Strings are sequences of one-character strings, so "/a/:x" is written   *)
(* <<"/", "a", "/", ":", "x">>.  A nil pointer to a node is the empty      *)
(* sequence and a non-nil pointer the one-element sequence holding the     *)
(* node.  A nil method map and an empty one are both the function with an  *)
(* empty domain: the code only reads them and allocates before writing.    *)
(***************************************************************************)
EXTENDS Integers, Sequences, FiniteSets, TLC

VARIABLES root,      \* radixTree.root, the tree of nodes
          calls,     \* every Add call made so far, with its arguments and outcome
          ret,       \* what the last Add, Find or ServeHTTP call returned
          mu,        \* radixTree.mu, the RWMutex
          writer,    \* the goroutine calling Add: its position and arguments
          readers,   \* the goroutines calling Find: position, arguments, result
          committed, \* the root as it was when the exclusive lock was last free
          router,    \* the AdvancedPACTRouter: its PACTRouter, root and config
          nodes,     \* the PACTNodes allocated so far; a pointer is an index
          last,      \* the last call that changed the router, and how many did
          legacy,    \* the first router (r) and the RouterOption it was made from
          bt,        \* the byte-level tree: its nodes and the Add call in progress
          pg         \* the goroutines on the AdvancedPACTRouter: a lookup, a writer

treeVars == <<root, calls, ret, mu, writer, readers, committed>>
pactVars == <<router, nodes, last>>
vars == <<treeVars, pactVars, legacy, bt, pg>>

---------------------------------------------------------------------------
(* Bounds and input sets *)

MaxAdds == 3
NumReaders == 2

Methods == {"GET", "POST"}

AddInputs ==
  { <<"GET",  <<"/", "a">>>>,
    <<"GET",  <<"/", "a", "b">>>>,
    <<"GET",  <<"/", "a", "/", "b">>>>,
    <<"GET",  <<"/", "a", "/", ":", "x">>>>,
    <<"GET",  <<"/", "a", "/", "*", "w">>>>,
    <<"GET",  <<"/", "a", "/", ":", "x", "/", "b">>>>,
    <<"GET",  <<"/", "*", "w">>>>,
    <<"GET",  <<"/", "b", "/", "*", "w">>>>,
    <<"POST", <<"/", "a">>>>,
    <<"GET",  <<>>>>,
    <<"GET",  <<"a">>>> }

\* the requests the Find and ServeHTTP steps make
Requests ==
  { <<"GET",  <<"/", "a", "/", "b">>>>,
    <<"GET",  <<"/", "a", "/", "b", "/", "a">>>>,
    <<"POST", <<"/", "a">>>>,
    <<"GET",  <<"a">>>> }

\* the request paths the properties range over
FindPaths ==
  { <<"/", "a">>,
    <<"/", "b">>,
    <<"/", "a", "b">>,
    <<"/", "a", "/", "a">>,
    <<"/", "a", "/", "b">>,
    <<"/", "a", "/", "b", "/", "a">>,
    <<"/", "a", "/", "a", "/", "b">>,
    <<"/", "b", "/", "a">>,
    <<"a">> }

ConcAddInputs ==
  { <<"GET", <<"/", "a">>>>,
    <<"GET", <<"/", "a", "/", "b">>>>,
    <<"GET", <<"/", "b">>>>,
    <<"GET", <<"/", "a", "/", ":", "x">>>>,
    <<"GET", <<"a">>>> }

ConcFindPaths ==
  { <<"/", "a">>, <<"/", "a", "/", "b">>, <<"/", "b">> }

---------------------------------------------------------------------------
(* Strings *)

Ord(c) ==
  CASE c = "*" -> 42
    [] c = "/" -> 47
    [] c = ":" -> 58
    [] c = "a" -> 97
    [] c = "b" -> 98
    [] c = "w" -> 119
    [] c = "x" -> 120

min(a, b) == IF a < b THEN a ELSE b

\* strings.Index(s, "/"), one-based; 0 when there is no slash
IndexSlash(s) ==
  IF \E i \in 1..Len(s) : s[i] = "/"
  THEN CHOOSE i \in 1..Len(s) : s[i] = "/" /\ \A j \in 1..(i - 1) : s[j] # "/"
  ELSE 0

\* s[from:] of Go, with from zero-based
From(s, from) == SubSeq(s, from + 1, Len(s))

\* s[:to] of Go
UpTo(s, to) == SubSeq(s, 1, to)

\* the loop "for end < len(path) && path[end] != '/'" started at start
SegEnd(s, start) ==
  IF \E i \in (start + 1)..Len(s) : s[i] = "/"
  THEN (CHOOSE i \in (start + 1)..Len(s) :
           s[i] = "/" /\ \A j \in (start + 1)..(i - 1) : s[j] # "/") - 1
  ELSE Len(s)

---------------------------------------------------------------------------
(* Nodes *)

NoHandler == 0
NoMethods == <<>>
Nil == <<>>

NewNode(nType, paramName) ==
  [path |-> <<>>, nType |-> nType, paramName |-> paramName,
   methods |-> NoMethods, children |-> <<>>, indices |-> <<>>,
   wildChild |-> Nil, paramChild |-> Nil, priority |-> 0]

\* n.methods[method] = handler
SetMethod(n, method, handler) ==
  [n EXCEPT !.methods =
     [m \in (DOMAIN n.methods) \cup {method} |->
        IF m = method THEN handler ELSE n.methods[m]]]

\* handler, ok := n.methods[method]
GetMethod(n, method) ==
  IF method \in DOMAIN n.methods THEN n.methods[method] ELSE NoHandler

InsertAt(s, pos, e) == SubSeq(s, 1, pos - 1) \o <<e>> \o SubSeq(s, pos, Len(s))

addChild(n, child, index) ==
  LET pos == Cardinality({i \in 1..Len(n.indices) :
                 \A j \in 1..i : Ord(n.indices[j]) < Ord(index)}) + 1
  IN [n EXCEPT !.indices = InsertAt(n.indices, pos, index),
               !.children = InsertAt(n.children, pos, child)]

\* the split of insertStaticRoute: the node keeps the first commonLen bytes.
\* priority is a uint32 that addRoute has incremented before any split and
\* that MaxAdds calls cannot bring near 2^32, so it is a plain natural here
splitNode(n, commonLen) ==
  LET child == [path |-> From(n.path, commonLen), nType |-> n.nType,
                paramName |-> <<>>, methods |-> n.methods,
                children |-> n.children, indices |-> n.indices,
                wildChild |-> n.wildChild, paramChild |-> n.paramChild,
                priority |-> n.priority - 1]
  IN [n EXCEPT !.path = UpTo(n.path, commonLen),
               !.children = <<child>>,
               !.indices = <<child.path[1]>>,
               !.methods = NoMethods,
               !.wildChild = Nil,
               !.paramChild = Nil]

commonPrefixLen(s, t) ==
  Cardinality({i \in 1..min(Len(s), Len(t)) : \A j \in 1..i : s[j] = t[j]})

\* position of the first index equal to c, 0 when there is none
IndexOf(indices, c) ==
  IF \E i \in 1..Len(indices) : indices[i] = c
  THEN CHOOSE i \in 1..Len(indices) :
         indices[i] = c /\ \A j \in 1..(i - 1) : indices[j] # c
  ELSE 0

RECURSIVE addRoute(_, _, _, _)

insertStaticRoute(n, method, path, handler) ==
  LET slashIndex == IndexSlash(path)
      staticPart == IF slashIndex = 0 THEN path ELSE UpTo(path, slashIndex - 1)
      remainingPath == IF slashIndex = 0 THEN <<>> ELSE From(path, slashIndex)
  IN
  IF n.path = <<>>
  THEN LET n1 == [n EXCEPT !.path = staticPart, !.nType = "static"]
       IN IF remainingPath = <<>>
          THEN SetMethod(n1, method, handler)
          ELSE addRoute(n1, method, remainingPath, handler)
  ELSE
  LET commonLen == commonPrefixLen(staticPart, n.path)
      n2 == IF commonLen < Len(n.path) THEN splitNode(n, commonLen) ELSE n
  IN
  IF commonLen = Len(staticPart)
  THEN IF remainingPath = <<>>
       THEN SetMethod(n2, method, handler)
       ELSE addRoute(n2, method, remainingPath, handler)
  ELSE
  LET remainingStatic == From(staticPart, commonLen)
      c == remainingStatic[1]
      i == IndexOf(n2.indices, c)
  IN
  IF i # 0
  THEN [n2 EXCEPT !.children[i] =
          addRoute(n2.children[i], method,
                   remainingStatic \o <<"/">> \o remainingPath, handler)]
  ELSE LET child == [NewNode("static", <<>>) EXCEPT !.path = remainingStatic]
       IN addChild(n2,
                   IF remainingPath = <<>>
                   THEN SetMethod(child, method, handler)
                   ELSE addRoute(child, method, remainingPath, handler),
                   c)

insertParamRoute(n, method, path, handler) ==
  LET end == SegEnd(path, 1)
      paramName == SubSeq(path, 2, end)
      pc == IF n.paramChild = Nil THEN NewNode("param", paramName)
            ELSE n.paramChild[1]
  IN [n EXCEPT !.paramChild =
        << IF end < Len(path)
           THEN addRoute(pc, method, From(path, end + 1), handler)
           ELSE SetMethod(pc, method, handler) >>]

insertWildcardRoute(n, method, path, handler) ==
  LET end == SegEnd(path, 1)
      paramName == SubSeq(path, 2, end)
      wc == IF n.wildChild = Nil THEN NewNode("wildcard", paramName)
            ELSE n.wildChild[1]
  IN [n EXCEPT !.wildChild = << SetMethod(wc, method, handler) >>]

\* The guard len(path) > 1000 of addRoute is left out: the patterns of
\* AddInputs are a few bytes long and no recursive call lengthens its path
\* beyond the one Add was given.
addRoute(n, method, path, handler) ==
  LET n0 == [n EXCEPT !.priority = n.priority + 1]
  IN IF path = <<>> THEN SetMethod(n0, method, handler)
     ELSE IF path[1] = ":" THEN insertParamRoute(n0, method, path, handler)
     ELSE IF path[1] = "*" THEN insertWildcardRoute(n0, method, path, handler)
     ELSE insertStaticRoute(n0, method, path, handler)


RECURSIVE findRoute(_, _, _, _)

\* the scan of the literal children in findRoute: the first child whose index
\* is the next byte is tried, and only that one
findStatic(n, method, path, params) ==
  LET i == IF Len(n.children) > 0 THEN IndexOf(n.indices, path[1]) ELSE 0
  IN IF i = 0 THEN [h |-> NoHandler, ps |-> params]
     ELSE findRoute(n.children[i], method, path, params)

findParam(n, method, path, params) ==
  IF n.paramChild = Nil THEN [h |-> NoHandler, ps |-> params]
  ELSE LET end == SegEnd(path, 0)
           ps1 == Append(params, [Key |-> n.paramChild[1].paramName,
                                  Value |-> UpTo(path, end)])
       IN IF end = Len(path)
          THEN [h |-> GetMethod(n.paramChild[1], method), ps |-> ps1]
          ELSE findRoute(n.paramChild[1], method, From(path, end + 1), ps1)

findWild(n, method, path, params) ==
  IF n.wildChild = Nil THEN [h |-> NoHandler, ps |-> params]
  ELSE [h |-> GetMethod(n.wildChild[1], method),
        ps |-> Append(params, [Key |-> n.wildChild[1].paramName,
                               Value |-> path])]

findRoute(n, method, path0, params) ==
  IF n.path # <<>> /\
     (Len(path0) < Len(n.path) \/ UpTo(path0, Len(n.path)) # n.path)
  THEN [h |-> NoHandler, ps |-> params]
  ELSE
  LET path1 == IF n.path # <<>> THEN From(path0, Len(n.path)) ELSE path0
      path == IF n.path # <<>> /\ Len(path1) > 0 /\ path1[1] = "/"
              THEN Tail(path1) ELSE path1
  IN
  IF path = <<>> THEN [h |-> GetMethod(n, method), ps |-> params]
  ELSE
  LET s == findStatic(n, method, path, params)
  IN IF s.h # NoHandler THEN s
     ELSE LET p == findParam(n, method, path, s.ps)
          IN IF p.h # NoHandler THEN p
             ELSE findWild(n, method, path, p.ps)

\* an insertion sort that moves the children and leaves the index bytes where
\* they were
sortChildrenOnly(n) ==
  LET k == Len(n.children)
      rank(i) == Cardinality({j \in 1..k :
                    \/ n.children[j].priority > n.children[i].priority
                    \/ /\ n.children[j].priority = n.children[i].priority
                       /\ j < i}) + 1
      at(r) == CHOOSE i \in 1..k : rank(i) = r
  IN [n EXCEPT !.children = [r \in 1..k |-> n.children[at(r)]]]

\* the insertion sort of updatePriority, as the position each child ends at:
\* children by descending priority, equal priorities in their old order
sortChildren(n) ==
  LET k == Len(n.children)
      rank(i) == Cardinality({j \in 1..k :
                    \/ n.children[j].priority > n.children[i].priority
                    \/ /\ n.children[j].priority = n.children[i].priority
                       /\ j < i}) + 1
      at(r) == CHOOSE i \in 1..k : rank(i) = r
  IN [n EXCEPT !.children = [r \in 1..k |-> n.children[at(r)]],
               !.indices = [r \in 1..k |-> n.indices[at(r)]]]

RECURSIVE updatePriority(_)

updatePriority(n) ==
  LET s == sortChildren(n)
  IN [s EXCEPT
        !.children = [i \in 1..Len(s.children) |-> updatePriority(s.children[i])],
        !.paramChild = IF s.paramChild = Nil THEN Nil
                       ELSE <<updatePriority(s.paramChild[1])>>,
        !.wildChild = IF s.wildChild = Nil THEN Nil
                      ELSE <<updatePriority(s.wildChild[1])>>]

---------------------------------------------------------------------------
(* The tree *)

\* NewRadixTree
NewRadixTree == NewNode("static", <<>>)

\* the check radixTree.Add and radixTree.Find make on their path argument
BadPath(path) == path = <<>> \/ path[1] # "/"

\* Add without the test for the leading slash
AddResultUnchecked(t, method, path, handler) ==
  IF path = <<>>
  THEN [panic |-> TRUE, root |-> t]
  ELSE [panic |-> FALSE,
        root |-> updatePriority(addRoute(t, method, Tail(path), handler))]

\* radixTree.Add between Lock and Unlock: the panic, or the new root
AddResult(t, method, path, handler) ==
  IF BadPath(path)
  THEN [panic |-> TRUE, root |-> t]
  ELSE [panic |-> FALSE,
        root |-> updatePriority(addRoute(t, method, Tail(path), handler))]

\* radixTree.Find between RLock and RUnlock
FindResult(t, method, path) ==
  IF BadPath(path)
  THEN [h |-> NoHandler, ps |-> <<>>]
  ELSE findRoute(t, method, Tail(path), <<>>)

---------------------------------------------------------------------------
(* The PACT router (src/pact.go) and its extension (src/pact_advanced.go). *)
(* A *PACTNode is an index into the sequence of nodes allocated so far,    *)
(* NilNode the nil pointer.  The nil interface value is NilHandler.        *)

HOT_PATH_CACHE_SIZE == 32
HOT_PATH_THRESHOLD == 70
MIN_PREFIX_LENGTH == 4

NilNode == 0
NilHandler == "nil"

\* strings.HasPrefix, strings.Count and strings.Contains for a one-byte text
HasPrefix(s, prefix) ==
  Len(s) >= Len(prefix) /\ SubSeq(s, 1, Len(prefix)) = prefix

Count(s, c) == Cardinality({i \in 1..Len(s) : s[i] = c})

Contains(s, c) == \E i \in 1..Len(s) : s[i] = c

\* the zero PACTNode; of its fields the code reads and writes handlers[0] only
NewPACTNode == [handlers0 |-> 0]

setHandler(ns, n, handler) ==
  IF handler # NilHandler THEN [ns EXCEPT ![n].handlers0 = 1] ELSE ns

getHandler(ns, n) ==
  IF ns[n].handlers0 = 1 THEN "handler" ELSE NilHandler

insert(ns, n, path, handler) == setHandler(ns, n, handler)

\* the two paths PACTNode.lookup refuses by name
invalidPatterns ==
  { <<"/", "a", "p", "i", "/", "v", "1", "/",
      "n", "o", "n", "e", "x", "i", "s", "t", "e", "n", "t">>,
    <<"/", "a", "p", "i", "/", "v", "1", "/", "u", "s", "e", "r", "s", "/",
      "1", "2", "3", "/", "p", "o", "s", "t", "s">> }

\* PACTNode.lookup: the node itself or nil
lookup(ns, n, path) ==
  IF path \in invalidPatterns THEN NilNode
  ELSE IF HasPrefix(path, <<"/", "a", "p", "i", "/">>)
          /\ getHandler(ns, n) # NilHandler
       THEN n
  ELSE NilNode

NewRouteAnalyzer ==
  [commonPrefixes |-> <<>>, hotPaths |-> <<>>, patterns |-> <<>>]

longestCommonPrefix(a, b) ==
  LET minLen == min(Len(a), Len(b))
      diff == {i \in 1..minLen : a[i] # b[i]}
  IN IF diff = {} THEN UpTo(a, minLen)
     ELSE UpTo(a, (CHOOSE i \in diff : \A j \in diff : i <= j) - 1)

\* findCommonPrefixes: one count more for each pair of routes with a long
\* enough common prefix
findCommonPrefixes(ra, routes) ==
  LET pairs == {pr \in (1..Len(routes)) \X (1..Len(routes)) : pr[1] < pr[2]}
      common(pr) == longestCommonPrefix(routes[pr[1]].Path, routes[pr[2]].Path)
      long == {pr \in pairs : Len(common(pr)) >= MIN_PREFIX_LENGTH}
      old == ra.commonPrefixes
  IN [ra EXCEPT !.commonPrefixes =
        [c \in DOMAIN old \cup {common(pr) : pr \in long} |->
           (IF c \in DOMAIN old THEN old[c] ELSE 0)
             + Cardinality({pr \in long : common(pr) = c})]]

classifyRoute(route) ==
  LET hasParams == Contains(route.Path, ":")
      depth == Count(route.Path, "/")
  IN IF ~hasParams /\ depth <= 3 THEN "Collection"
     ELSE IF hasParams /\ depth <= 4 THEN "Resource"
     ELSE IF depth > 4 THEN "NestedResource"
     ELSE "Action"

identifyPatterns(ra, routes) ==
  LET paths == {routes[i].Path : i \in 1..Len(routes)}
      lastOf(p) == CHOOSE i \in 1..Len(routes) :
                     /\ routes[i].Path = p
                     /\ \A j \in (i + 1)..Len(routes) : routes[j].Path # p
  IN [ra EXCEPT !.patterns =
        [p \in DOMAIN ra.patterns \cup paths |->
           IF p \in paths THEN classifyRoute(routes[lastOf(p)])
           ELSE ra.patterns[p]]]

\* calculateAccessScore with a penalty of 10 for a parameter
calculateAccessScorePenalty10(route) ==
  LET depth == Count(route.Path, "/")
      s1 == 100 - depth * 10
      s2 == IF ~Contains(route.Path, ":") THEN s1 + 20 ELSE s1
      s3 == IF route.Method = "GET" THEN s2 + 15 ELSE s2
  IN IF Contains(route.Path, ":") THEN s3 - 10 ELSE s3

\* calculateAccessScore: the float64 values are whole numbers throughout
calculateAccessScore(route) ==
  LET depth == Count(route.Path, "/")
      s1 == 100 - depth * 10
      s2 == IF ~Contains(route.Path, ":") THEN s1 + 20 ELSE s1
      s3 == IF route.Method = "GET" THEN s2 + 15 ELSE s2
  IN IF Contains(route.Path, ":") THEN s3 - 5 ELSE s3

RECURSIVE predictHotPaths(_, _)
predictHotPaths(ra, routes) ==
  IF routes = <<>> THEN ra
  ELSE LET score == calculateAccessScore(routes[1])
           ra1 == IF score >= HOT_PATH_THRESHOLD
                  THEN [ra EXCEPT !.hotPaths = Append(ra.hotPaths, routes[1].Path)]
                  ELSE ra
       IN predictHotPaths(ra1, Tail(routes))

Analyze(ra, routes) ==
  predictHotPaths(identifyPatterns(findCommonPrefixes(ra, routes), routes), routes)

RECURSIVE buildOptimizedTree(_, _, _)
buildOptimizedTree(ns, n, routes) ==
  IF routes = <<>> THEN ns
  ELSE buildOptimizedTree(insert(ns, n, routes[1].Path, routes[1].Handler),
                          n, Tail(routes))

\* hotPaths[path] = node
CachePut(hot, path, node) ==
  [p \in DOMAIN hot \cup {path} |-> IF p = path THEN node ELSE hot[p]]

RECURSIVE preCacheUnchecked(_, _, _, _)
\* the loop of preCacheHotPaths storing the root for every predicted path
preCacheUnchecked(hot, ns, n, paths) ==
  IF paths = <<>> THEN hot
  ELSE IF Cardinality(DOMAIN hot) >= HOT_PATH_CACHE_SIZE THEN hot
  ELSE preCacheUnchecked(CachePut(hot, paths[1], n), ns, n, Tail(paths))

RECURSIVE preCache(_, _, _, _)
\* the loop of preCacheHotPaths over the rest of the predicted paths
preCache(hot, ns, n, paths) ==
  IF paths = <<>> THEN hot
  ELSE IF Cardinality(DOMAIN hot) >= HOT_PATH_CACHE_SIZE THEN hot
  ELSE LET node == lookup(ns, n, paths[1])
       IN preCache(IF node # NilNode THEN CachePut(hot, paths[1], node) ELSE hot,
                   ns, n, Tail(paths))

preCacheHotPaths(pr, ns) ==
  [pr EXCEPT !.hotPaths = preCache(pr.hotPaths, ns, pr.root, pr.analyzer.hotPaths)]

\* PACTRouter.Build: the router and the nodes after the call
BuildResult(pr, ns, routes) ==
  LET pr1 == [pr EXCEPT !.analyzer = Analyze(pr.analyzer, routes)]
      ns1 == buildOptimizedTree(ns, pr1.root, routes)
  IN [r |-> preCacheHotPaths(pr1, ns1), ns |-> ns1]

\* PACTRouter.Lookup
LookupResult(pr, ns, path) ==
  IF path \in DOMAIN pr.hotPaths THEN getHandler(ns, pr.hotPaths[path])
  ELSE LET node == lookup(ns, pr.root, path)
       IN IF node # NilNode THEN getHandler(ns, node) ELSE NilHandler

\* NewPACTRouter allocates the root node
NewPACTRouter(ns) ==
  [r |-> [root |-> Len(ns) + 1, hotPaths |-> <<>>, analyzer |-> NewRouteAnalyzer],
   ns |-> Append(ns, NewPACTNode)]

\* a nil *RouterConfig; a non-nil one is <<config>>
NilConfig == <<>>

\* NewAdvancedPACTRouter; of RouterConfig the three fields the properties
\* name are kept, and the atomic root starts as the nil pointer
NewAdvancedPACTRouter(config, ns) ==
  LET cfg == IF config = NilConfig
             THEN [HotPathCacheSize |-> 32, HotPathThreshold |-> 70,
                   ConcurrentAccess |-> TRUE]
             ELSE config[1]
      np == NewPACTRouter(ns)
  IN [r |-> [PACTRouter |-> np.r, root |-> NilNode, config |-> cfg],
      ns |-> np.ns]

\* traverseWithVersion on a node without prefix and without children, the
\* only kind of node the program builds
traverseWithVersion(ns, node, path) ==
  IF path = <<>> THEN getHandler(ns, node) ELSE NilHandler

lookupWithVersion(rt, ns, node, path) ==
  IF path \in DOMAIN rt.PACTRouter.hotPaths
  THEN getHandler(ns, rt.PACTRouter.hotPaths[path])
  ELSE traverseWithVersion(ns, node, path)

\* AdvancedPACTRouter.ConcurrentLookup
ConcurrentLookupResult(rt, ns, path) ==
  IF ~rt.config.ConcurrentAccess THEN LookupResult(rt.PACTRouter, ns, path)
  ELSE IF rt.root = NilNode THEN NilHandler
  ELSE lookupWithVersion(rt, ns, rt.root, path)

\* AdvancedPACTRouter.BatchUpdate: a new router is built, then its atomic
\* root or its PACTRouter is taken over; in the first case the node of the
\* new router is unreachable when the call returns
BatchUpdateResult(rt, ns, routes) ==
  LET new == NewAdvancedPACTRouter(<<rt.config>>, ns)
      built == BuildResult(new.r.PACTRouter, new.ns, routes)
  IN IF rt.config.ConcurrentAccess
     THEN [r |-> [rt EXCEPT !.root = new.r.root], ns |-> ns]
     ELSE [r |-> [rt EXCEPT !.PACTRouter = built.r], ns |-> built.ns]

---------------------------------------------------------------------------
(* State *)

Idle == [pc |-> "idle"]

\* the matching tree and its lock after NewRadixTree
InitTree ==
  /\ root = NewRadixTree
  /\ calls = <<>>
  /\ ret = [op |-> "none"]
  /\ mu = [w |-> FALSE, r |-> 0]
  /\ writer = Idle
  /\ readers = [r \in 1..NumReaders |-> Idle]
  /\ committed = NewRadixTree

\* what a lookup reads of the router: the hot-path cache and the root
Snapshot(rt) == [hotPaths |-> rt.PACTRouter.hotPaths, root |-> rt.PACTRouter.root]

\* the router after NewAdvancedPACTRouter(config), no call in progress
InitRouter(config) ==
  /\ router = NewAdvancedPACTRouter(config, <<>>).r
  /\ nodes = NewAdvancedPACTRouter(config, <<>>).ns
  /\ last = [op |-> "New", routes |-> <<>>, n |-> 0]
  /\ pg = [reader |-> Idle, writer |-> Idle,
           snaps |-> {Snapshot(NewAdvancedPACTRouter(config, <<>>).r)}]

\* a RouterOption without handlers
NoOptions == [NotFoundHandler |-> NilHandler, MethodNotAllowed |-> NilHandler]

\* NewRouter of the first router: the defaults are the notFound and
\* notNotAllowed values
NewRouter(opts) ==
  LET r == [notFoundHandler |-> "notFound",
            methodNotAllowed |-> "notNotAllowed",
            routes |-> <<>>]
      r1 == IF opts.MethodNotAllowed # NilHandler
            THEN [r EXCEPT !.notFoundHandler = opts.MethodNotAllowed]
            ELSE r
  IN IF opts.NotFoundHandler # NilHandler
     THEN [r1 EXCEPT !.notFoundHandler = opts.NotFoundHandler]
     ELSE r1

\* the first router after NewRouter(opts)
InitLegacy(opts) == legacy = [r |-> NewRouter(opts), opts |-> opts]

\* NewRadixTree of the byte-level tree: node 1 is the root, no call in progress
InitByteTree ==
  bt = [nodes |-> <<NewNode("static", <<>>)>>, pc |-> "idle", cur |-> 1,
        method |-> "", pattern |-> <<>>, path |-> <<>>, handler |-> NoHandler,
        steps |-> 0, adds |-> 0]

Init == InitTree /\ InitRouter(NilConfig) /\ InitLegacy(NoOptions) /\ InitByteTree

\* the handler passed to the next Add call: every call passes a fresh function
NextHandler == Len(calls) + 1

CallRecord(method, path, handler, panic) ==
  [method |-> method, path |-> path, handler |-> handler, panic |-> panic]

---------------------------------------------------------------------------
(* Calls that run alone: each is one step *)

Add(method, path) ==
  /\ Len(calls) < MaxAdds
  /\ LET res == AddResult(root, method, path, NextHandler)
     IN /\ root' = res.root
        /\ committed' = res.root
        /\ calls' = Append(calls, CallRecord(method, path, NextHandler, res.panic))
        /\ ret' = [op |-> "Add", panic |-> res.panic]
  /\ UNCHANGED <<mu, writer, readers, pactVars, legacy, bt, pg>>

\* a Find that counts the lookup on the root
FindCounting(method, path) ==
  /\ LET res == FindResult(root, method, path)
     IN ret' = [op |-> "Find", method |-> method, path |-> path,
                h |-> res.h, ps |-> res.ps]
  /\ root' = [root EXCEPT !.priority = root.priority + 1]
  /\ UNCHANGED <<calls, mu, writer, readers, committed, pactVars, legacy, bt, pg>>

Find(method, path) ==
  /\ LET res == FindResult(root, method, path)
     IN ret' = [op |-> "Find", method |-> method, path |-> path,
                h |-> res.h, ps |-> res.ps]
  /\ UNCHANGED <<root, calls, mu, writer, readers, committed, pactVars, legacy, bt, pg>>

\* Router.ServeHTTP: the handler found is invoked; without one the request is
\* answered by the not-found handler, or by http.NotFound when none is set
ServeHTTP(method, path) ==
  /\ LET res == FindResult(root, method, path)
     IN ret' = [op |-> "ServeHTTP", method |-> method, path |-> path,
                h |-> res.h,
                outcome |-> IF res.h # NoHandler THEN "handler" ELSE "notFound"]
  /\ UNCHANGED <<root, calls, mu, writer, readers, committed, pactVars, legacy, bt, pg>>

Next ==
  \/ \E in \in AddInputs : Add(in[1], in[2])
  \/ \E rq \in Requests : Find(rq[1], rq[2])
  \/ \E rq \in Requests : ServeHTTP(rq[1], rq[2])

Spec == Init /\ [][Next]_vars

---------------------------------------------------------------------------
(* Concurrent calls: one goroutine registers, the others look up.  Each    *)
(* step is one statement of radixTree.Add or radixTree.Find.               *)

AddLock(method, path) ==
  /\ writer.pc = "idle"
  /\ Len(calls) < MaxAdds
  /\ ~mu.w /\ mu.r = 0
  /\ mu' = [mu EXCEPT !.w = TRUE]
  /\ writer' = [pc |-> "locked", method |-> method, path |-> path,
                handler |-> NextHandler]
  /\ UNCHANGED <<root, calls, ret, readers, committed, pactVars, legacy, bt, pg>>

\* the panic of Add: the deferred Unlock runs
AddPanic ==
  /\ writer.pc = "locked"
  /\ BadPath(writer.path)
  /\ mu' = [mu EXCEPT !.w = FALSE]
  /\ calls' = Append(calls, CallRecord(writer.method, writer.path,
                                       writer.handler, TRUE))
  /\ committed' = root
  /\ writer' = Idle
  /\ UNCHANGED <<root, ret, readers, pactVars, legacy, bt, pg>>

AddRoute ==
  /\ writer.pc = "locked"
  /\ ~BadPath(writer.path)
  /\ root' = addRoute(root, writer.method, Tail(writer.path), writer.handler)
  /\ writer' = [writer EXCEPT !.pc = "added"]
  /\ UNCHANGED <<calls, ret, mu, readers, committed, pactVars, legacy, bt, pg>>

AddUpdatePriority ==
  /\ writer.pc = "added"
  /\ root' = updatePriority(root)
  /\ writer' = [writer EXCEPT !.pc = "sorted"]
  /\ UNCHANGED <<calls, ret, mu, readers, committed, pactVars, legacy, bt, pg>>

AddUnlock ==
  /\ writer.pc = "sorted"
  /\ mu' = [mu EXCEPT !.w = FALSE]
  /\ calls' = Append(calls, CallRecord(writer.method, writer.path,
                                       writer.handler, FALSE))
  /\ committed' = root
  /\ writer' = Idle
  /\ UNCHANGED <<root, ret, readers, pactVars, legacy, bt, pg>>

\* a Find that starts without waiting for the exclusive lock to be free
FindRLockNoWait(r, method, path) ==
  /\ readers[r].pc = "idle"
  /\ mu' = [mu EXCEPT !.r = mu.r + 1]
  /\ readers' = [readers EXCEPT ![r] =
                   [pc |-> "rlocked", method |-> method, path |-> path]]
  /\ UNCHANGED <<root, calls, ret, writer, committed, pactVars, legacy, bt, pg>>

FindRLock(r, method, path) ==
  /\ readers[r].pc = "idle"
  /\ ~mu.w
  /\ mu' = [mu EXCEPT !.r = mu.r + 1]
  /\ readers' = [readers EXCEPT ![r] =
                   [pc |-> "rlocked", method |-> method, path |-> path]]
  /\ UNCHANGED <<root, calls, ret, writer, committed, pactVars, legacy, bt, pg>>

FindRoute(r) ==
  /\ readers[r].pc = "rlocked"
  /\ LET res == FindResult(root, readers[r].method, readers[r].path)
     IN readers' = [readers EXCEPT ![r] =
                      [pc |-> "found", method |-> readers[r].method,
                       path |-> readers[r].path, h |-> res.h, ps |-> res.ps,
                       seen |-> root]]
  /\ UNCHANGED <<root, calls, ret, mu, writer, committed, pactVars, legacy, bt, pg>>

FindRUnlock(r) ==
  /\ readers[r].pc = "found"
  /\ mu' = [mu EXCEPT !.r = mu.r - 1]
  /\ readers' = [readers EXCEPT ![r] = Idle]
  /\ UNCHANGED <<root, calls, ret, writer, committed, pactVars, legacy, bt, pg>>

NextConc ==
  \/ \E in \in ConcAddInputs : AddLock(in[1], in[2])
  \/ AddPanic
  \/ AddRoute
  \/ AddUpdatePriority
  \/ AddUnlock
  \/ \E r \in 1..NumReaders, p \in ConcFindPaths : FindRLock(r, "GET", p)
  \/ \E r \in 1..NumReaders : FindRoute(r)
  \/ \E r \in 1..NumReaders : FindRUnlock(r)

SpecConc == Init /\ [][NextConc]_vars

---------------------------------------------------------------------------
(* What a pattern means: the vocabulary of the properties *)

RECURSIVE Split(_)
\* the segments of s, the text between its slashes
Split(s) ==
  LET i == IndexSlash(s)
  IN IF i = 0 THEN <<s>> ELSE <<UpTo(s, i - 1)>> \o Split(From(s, i))

RECURSIVE Join(_)
Join(segs) ==
  IF segs = <<>> THEN <<>>
  ELSE IF Len(segs) = 1 THEN segs[1]
  ELSE segs[1] \o <<"/">> \o Join(Tail(segs))

IsParamSeg(seg) == seg # <<>> /\ seg[1] = ":"
IsWildSeg(seg) == seg # <<>> /\ seg[1] = "*"

RECURSIVE MatchSegs(_, _)
MatchSegs(ps, qs) ==
  IF ps = <<>> THEN qs = <<>>
  ELSE IF qs = <<>> THEN FALSE
  ELSE IF IsWildSeg(ps[1]) THEN Join(qs) # <<>>
  ELSE IF IsParamSeg(ps[1]) THEN qs[1] # <<>> /\ MatchSegs(Tail(ps), Tail(qs))
  ELSE qs[1] = ps[1] /\ MatchSegs(Tail(ps), Tail(qs))

\* path is an instance of pattern, segment by segment
Instantiates(pattern, path) ==
  /\ ~BadPath(pattern)
  /\ ~BadPath(path)
  /\ MatchSegs(Split(Tail(pattern)), Split(Tail(path)))

RECURSIVE BindSegs(_, _)
BindSegs(ps, qs) ==
  IF ps = <<>> \/ qs = <<>> THEN <<>>
  ELSE IF IsWildSeg(ps[1])
       THEN <<[Key |-> Tail(ps[1]), Value |-> Join(qs)]>>
  ELSE IF IsParamSeg(ps[1])
       THEN <<[Key |-> Tail(ps[1]), Value |-> qs[1]]>> \o BindSegs(Tail(ps), Tail(qs))
  ELSE BindSegs(Tail(ps), Tail(qs))

\* the parameters pattern binds on path, left to right
Bindings(pattern, path) == BindSegs(Split(Tail(pattern)), Split(Tail(path)))

\* a wildcard pattern without its last segment
BarePrefix(pattern) ==
  UpTo(pattern, Len(pattern) - Len(Split(Tail(pattern))[Len(Split(Tail(pattern)))]) - 1)

IsWildcardPattern(pattern) ==
  ~BadPath(pattern) /\ IsWildSeg(Split(Tail(pattern))[Len(Split(Tail(pattern)))])

\* the calls that registered a route
Registered == {i \in 1..Len(calls) : ~calls[i].panic}

\* no (method, pattern) pair was registered twice
DistinctPairs ==
  \A i, j \in Registered :
     i # j => <<calls[i].method, calls[i].path>> # <<calls[j].method, calls[j].path>>

\* call i registered a pair that an earlier call had registered
IsDuplicate(i) ==
  \E j \in Registered :
     j < i /\ calls[j].method = calls[i].method /\ calls[j].path = calls[i].path

HasRoute(method, pattern) ==
  \E i \in Registered : calls[i].method = method /\ calls[i].path = pattern

HandlerOf(method, pattern) ==
  calls[CHOOSE i \in Registered :
          calls[i].method = method /\ calls[i].path = pattern].handler

\* p instantiates the pattern of call i and of no other registered route of
\* the same method
OnlyMatch(i, p) ==
  /\ Instantiates(calls[i].path, p)
  /\ \A j \in Registered :
        (calls[j].method = calls[i].method /\ calls[j].path # calls[i].path)
           => ~Instantiates(calls[j].path, p)

---------------------------------------------------------------------------
(* Properties *)

\* C1: after Add calls with pairwise distinct (method, pattern) pairs, Find on
\* a path that instantiates a registered pattern (and no other pattern of that
\* method) returns the handler registered for that pair.
C1_RegisteredRoutesResolve ==
  DistinctPairs =>
    \A i \in Registered : \A p \in FindPaths :
       OnlyMatch(i, p) =>
         FindResult(root, calls[i].method, p).h = calls[i].handler

\* C2: when Find returns the handler of a pattern the path instantiates, the
\* Parameters list is exactly the bindings of that pattern on the path, in
\* path order, with no entry left over from an abandoned branch.
C2_ParametersOfTheMatch ==
  \A m \in Methods, p \in FindPaths :
     LET res == FindResult(root, m, p)
     IN (res.h # NoHandler /\ Instantiates(calls[res.h].path, p))
          => res.ps = Bindings(calls[res.h].path, p)

\* C3: with GET /a/b, GET /a/:x and GET /a/*w registered in any order, /a/b
\* resolves to the literal route, /a/a to the parameter route and /a/b/a to
\* the wildcard route.
C3_LiteralParamWildcardOrder ==
  (/\ DistinctPairs
   /\ HasRoute("GET", <<"/", "a", "/", "b">>)
   /\ HasRoute("GET", <<"/", "a", "/", ":", "x">>)
   /\ HasRoute("GET", <<"/", "a", "/", "*", "w">>))
  => /\ FindResult(root, "GET", <<"/", "a", "/", "b">>).h
          = HandlerOf("GET", <<"/", "a", "/", "b">>)
     /\ FindResult(root, "GET", <<"/", "a", "/", "a">>).h
          = HandlerOf("GET", <<"/", "a", "/", ":", "x">>)
     /\ FindResult(root, "GET", <<"/", "a", "/", "b", "/", "a">>).h
          = HandlerOf("GET", <<"/", "a", "/", "*", "w">>)

\* C4: Find returns a handler only for a path that instantiates, segment by
\* segment, a pattern registered for that method.
C4_OnlyRegisteredPathsMatch ==
  \A m \in Methods, p \in FindPaths :
     FindResult(root, m, p).h # NoHandler
       => \E i \in Registered :
             calls[i].method = m /\ Instantiates(calls[i].path, p)

\* C5: a request whose path instantiates a pattern registered only under other
\* methods is answered as method-not-allowed, and one whose path instantiates
\* no registered pattern as not-found.
C5_MethodMismatchIsNotNotFound ==
  ret.op = "ServeHTTP" =>
    LET pathMatches ==
          \E i \in Registered : Instantiates(calls[i].path, ret.path)
        methodMatches ==
          \E i \in Registered :
             calls[i].method = ret.method /\ Instantiates(calls[i].path, ret.path)
    IN /\ (pathMatches /\ ~methodMatches) => ret.outcome = "methodNotAllowed"
       /\ ~pathMatches => ret.outcome = "notFound"

\* C6: an Add of an already registered (method, pattern) fails, and no Find
\* ever returns the handler the failed call passed.
C6_DuplicateRouteRejected ==
  \A i \in 1..Len(calls) :
     IsDuplicate(i) =>
       /\ calls[i].panic
       /\ \A m \in Methods, p \in FindPaths :
             FindResult(root, m, p).h # calls[i].handler

\* C7: in a tree of wildcard routes, a path below a route's prefix (and below
\* no other route's) returns that route's handler with the whole remainder
\* bound to the wildcard's name, and the bare prefix never returns it.
C7_WildcardRoutes ==
  (DistinctPairs /\ \A i \in Registered : IsWildcardPattern(calls[i].path))
  => \A i \in Registered :
        /\ \A p \in FindPaths :
              OnlyMatch(i, p) =>
                FindResult(root, calls[i].method, p)
                  = [h |-> calls[i].handler, ps |-> Bindings(calls[i].path, p)]
        /\ FindResult(root, calls[i].method, BarePrefix(calls[i].path)).h
             # calls[i].handler

\* C8: a lookup holds the shared lock from before its traversal until after
\* it, a registration holds the exclusive lock from before addRoute until
\* after updatePriority, so a lookup in progress sees the tree as the last
\* completed Add left it and returns what a lookup run alone on that tree
\* returns.
C8_LockedTraversal ==
  /\ writer.pc # "idle" =>
       (mu.w /\ mu.r = 0 /\ \A r \in 1..NumReaders : readers[r].pc = "idle")
  /\ \A r \in 1..NumReaders :
       readers[r].pc # "idle" => (~mu.w /\ mu.r > 0 /\ root = committed)
  /\ \A r \in 1..NumReaders :
       readers[r].pc = "found" =>
         /\ readers[r].seen = committed
         /\ [h |-> readers[r].h, ps |-> readers[r].ps]
              = FindResult(committed, readers[r].method, readers[r].path)

\* two lookups inside the shared lock at once, one of them with its handler
C8_Witness ==
  /\ Len(calls) >= 2
  /\ readers[1].pc = "found"
  /\ readers[1].h # NoHandler
  /\ readers[2].pc # "idle"

C10_BadPatternPanics ==
  [][(Len(calls') = Len(calls) + 1 /\ BadPath(calls'[Len(calls')].path))
       => (calls'[Len(calls')].panic /\ root' = root)]_vars

\* an Add with a bad pattern panicked on a tree that holds a route
C10_Witness ==
  /\ ret = [op |-> "Add", panic |-> TRUE]
  /\ BadPath(calls[Len(calls)].path)
  /\ Registered # {}

---------------------------------------------------------------------------
(* Pattern checks at registration: radixTree.Add and the validatePath of   *)
(* the first router (src/constants.go)                                     *)

\* the patterns registered in the runs that look at pattern checks
PatternInputs ==
  { <<"GET", <<"/", "a", "/", "b">>>>,
    <<"GET", <<"/", "a", "/", ":", "w">>>>,
    <<"GET", <<"/", "a", "/", ":", "x", "/", ":", "w">>>>,
    <<"GET", <<"/", "a", "/", ":", "x", "/", ":", "x">>>>,
    <<"GET", <<"/", ":", "x", "/", "a", "/", ":", "x">>>>,
    <<"GET", <<"/", "a", "/", "/", "b">>>>,
    <<"GET", <<"/", "a", "/", "*", "w", "/", "b">>>>,
    <<"GET", <<"/", "a", "/", "*", "w">>>>,
    <<"GET", <<"a">>>> }

\* the paths handed to validatePath
ValidateInputs ==
  { <<>>,
    <<"/">>,
    <<"/", "a">>,
    <<"/", "a", "/">>,
    <<"a", "/">>,
    <<"/", "a", "/", "/">>,
    <<"/", "a", "/", ":", "x", "/">>,
    <<"/", "a", "/", ":", "x", "/", ":", "w", "/">>,
    <<"/", "a", "/", "a", "/", ":", "a", "/", ":", "a", "/">>,
    <<"/", "a", "/", ":", "x", "/", "b", "/", ":", "x", "/">>,
    <<"/", "x", "/", ":", "x", "/">>,
    <<"/", ":", "/">> }

\* strings.Contains(s, "//")
ContainsDoubleSlash(s) ==
  \E i \in 1..(Len(s) - 1) : s[i] = "/" /\ s[i + 1] = "/"

\* validPathStartAndEndRegex, ^\/(.?)*\/$ : a slash, anything, a slash
validPathStartAndEnd(s) ==
  Len(s) >= 2 /\ s[1] = "/" /\ s[Len(s)] = "/"

\* the class \w of the regular expressions: [0-9A-Za-z_]
IsWordChar(c) ==
  LET o == Ord(c)
  IN (48 <= o /\ o <= 57) \/ (65 <= o /\ o <= 90) \/ o = 95 \/ (97 <= o /\ o <= 122)

RECURSIVE WordRunEnd(_, _)
\* the first index at or after i of s that holds no word character
WordRunEnd(s, i) ==
  IF i > Len(s) \/ ~IsWordChar(s[i]) THEN i ELSE WordRunEnd(s, i + 1)

RECURSIVE getURLParams(_, _)
\* getURLParamsRegex.FindAllString(s, -1) from index i on: the regular
\* expression \:((\W^\/)|\w|\d)*\/ matches a colon, word characters and a
\* slash (its first alternative cannot match: ^ after a character)
getURLParams(s, i) ==
  IF i > Len(s) THEN <<>>
  ELSE IF s[i] = ":"
       THEN LET k == WordRunEnd(s, i + 1)
            IN IF k <= Len(s) /\ s[k] = "/"
               THEN <<SubSeq(s, i, k)>> \o getURLParams(s, k + 1)
               ELSE getURLParams(s, i + 1)
  ELSE getURLParams(s, i + 1)

\* isParamKey: some element of params is key without its first character
isParamKey(params, key) ==
  /\ Len(key) > 1
  /\ \E i \in 1..Len(params) : params[i] = Tail(key)

\* validatePath: TRUE when it panics
validatePathPanics(path0) ==
  IF ContainsDoubleSlash(path0) THEN TRUE
  ELSE LET path == IF path0 = <<>> THEN <<"/">> ELSE path0
       IN IF path # <<"/">> /\ ~validPathStartAndEnd(path) THEN TRUE
          ELSE LET URLParams == getURLParams(path, 1)
                   pathArr == Split(path)
               IN \E k \in 1..Len(URLParams) : isParamKey(pathArr, URLParams[k])

ValidatePath(path) ==
  /\ ret' = [op |-> "validatePath", path |-> path,
             panic |-> validatePathPanics(path)]
  /\ UNCHANGED <<root, calls, mu, writer, readers, committed, pactVars, legacy, bt, pg>>

NextPatterns ==
  \/ \E in \in PatternInputs : Add(in[1], in[2])
  \/ \E rq \in Requests : Find(rq[1], rq[2])
  \/ \E path \in ValidateInputs : ValidatePath(path)

SpecPatterns == Init /\ [][NextPatterns]_vars

\* the names of the parameter segments of pattern, left to right
ParamNames(pattern) ==
  LET segs == Split(pattern)
  IN [k \in {i \in 1..Len(segs) : IsParamSeg(segs[i])} |-> Tail(segs[k])]

\* one parameter name stands in two segments of pattern
HasDuplicateParam(pattern) ==
  \E i, j \in DOMAIN ParamNames(pattern) :
    i # j /\ ParamNames(pattern)[i] = ParamNames(pattern)[j]

\* C11: a pattern that names one parameter in two segments is rejected:
\* radixTree.Add panics on it and registers nothing, and validatePath panics
C11_DuplicateParamRejected ==
  /\ \A i \in 1..Len(calls) :
       HasDuplicateParam(calls[i].path) => calls[i].panic
  /\ (ret.op = "validatePath" /\ HasDuplicateParam(ret.path)) => ret.panic

\* C12: radixTree.Add rejects a pattern with an empty segment ("//"): the
\* call fails and the pattern is never inserted
C12_EmptySegmentRejected ==
  \A i \in 1..Len(calls) :
    ContainsDoubleSlash(calls[i].path) => calls[i].panic

\* a wildcard segment of pattern is followed by further segments
WildcardNotLast(pattern) ==
  LET segs == Split(pattern)
  IN \E k \in 1..(Len(segs) - 1) : IsWildSeg(segs[k])

\* pattern up to and with its first wildcard segment
UpToWildcard(pattern) ==
  LET segs == Split(pattern)
      k == CHOOSE k \in 1..Len(segs) :
             IsWildSeg(segs[k]) /\ \A j \in 1..(k - 1) : ~IsWildSeg(segs[j])
  IN Join(SubSeq(segs, 1, k))

\* C13: radixTree.Add rejects a pattern whose wildcard segment is not the
\* last one, and never stores it as the pattern cut after the wildcard
C13_WildcardMustBeLast ==
  \A i \in 1..Len(calls) :
    WildcardNotLast(calls[i].path) =>
      /\ calls[i].panic
      /\ \A p \in FindPaths :
           Instantiates(UpToWildcard(calls[i].path), p) =>
             FindResult(root, calls[i].method, p).h # calls[i].handler

---------------------------------------------------------------------------
(* Calls on the PACT router: each is one step *)

MaxPactOps == 2

GetUsers ==
  [Path |-> <<"/", "a", "p", "i", "/", "u">>,
   Method |-> "GET", Handler |-> "getUsers"]

GetUser ==
  [Path |-> <<"/", "a", "p", "i", "/", "u", "/", ":", "i">>,
   Method |-> "GET", Handler |-> "getUser"]

UpdateUser ==
  [Path |-> <<"/", "a", "p", "i", "/", "u", "/", ":", "i">>,
   Method |-> "POST", Handler |-> "updateUser"]

GetHome ==
  [Path |-> <<"/", "u">>, Method |-> "GET", Handler |-> "home"]

PactRoutes == {GetUsers, GetUser, UpdateUser, GetHome}

\* the route slices passed to Build and BatchUpdate
RouteLists ==
  { <<>>,
    <<GetUsers>>,
    <<GetHome>>,
    <<UpdateUser>>,
    <<GetUsers, GetUser>>,
    <<GetUser, GetUsers>>,
    <<UpdateUser, GetUser>>,
    <<GetUsers, GetUsers>> }

\* the paths the Lookup and ConcurrentLookup steps ask for
PactRequests ==
  { <<"/", "a", "p", "i", "/", "u">>,
    <<"/", "a", "p", "i", "/", "a">>,
    <<"/", "u">> }

\* the paths the properties range over
PactPaths ==
  PactRequests \cup invalidPatterns \cup
  { <<"/", "a", "p", "i", "/", "u", "/", "a">>,
    <<"/", "a", "p", "i", "/", "u", "/", ":", "i">>,
    <<"/", "a">>,
    <<>> }

\* the configurations a router is made with
Configs ==
  { NilConfig,
    <<[HotPathCacheSize |-> 1, HotPathThreshold |-> 100,
       ConcurrentAccess |-> FALSE]>>,
    <<[HotPathCacheSize |-> 1, HotPathThreshold |-> 70,
       ConcurrentAccess |-> TRUE]>> }

InitPact ==
  /\ InitTree
  /\ \E config \in Configs : InitRouter(config)
  /\ InitLegacy(NoOptions)
  /\ InitByteTree

Changed(op, routes) == [op |-> op, routes |-> routes, n |-> last.n + 1]

Build(routes) ==
  /\ last.n < MaxPactOps
  /\ LET res == BuildResult(router.PACTRouter, nodes, routes)
     IN /\ router' = [router EXCEPT !.PACTRouter = res.r]
        /\ nodes' = res.ns
  /\ last' = Changed("Build", routes)
  /\ ret' = [op |-> "Build"]
  /\ UNCHANGED <<root, calls, mu, writer, readers, committed, legacy, bt, pg>>

\* PACTRouter.AddRoute
PACTAddRoute(route) ==
  /\ last.n < MaxPactOps
  /\ nodes' = insert(nodes, router.PACTRouter.root, route.Path, route.Handler)
  /\ last' = Changed("AddRoute", <<route>>)
  /\ ret' = [op |-> "AddRoute"]
  /\ UNCHANGED <<root, calls, mu, writer, readers, committed, router, legacy, bt, pg>>

\* both branches of UpdateRoute call AddRoute
UpdateRoute(route) ==
  /\ last.n < MaxPactOps
  /\ nodes' = insert(nodes, router.PACTRouter.root, route.Path, route.Handler)
  /\ last' = Changed("UpdateRoute", <<route>>)
  /\ ret' = [op |-> "UpdateRoute"]
  /\ UNCHANGED <<root, calls, mu, writer, readers, committed, router, legacy, bt, pg>>

BatchUpdate(routes) ==
  /\ last.n < MaxPactOps
  /\ LET res == BatchUpdateResult(router, nodes, routes)
     IN /\ router' = res.r
        /\ nodes' = res.ns
  /\ last' = Changed("BatchUpdate", routes)
  /\ ret' = [op |-> "BatchUpdate"]
  /\ UNCHANGED <<root, calls, mu, writer, readers, committed, legacy, bt, pg>>

\* Shutdown empties the cache; the counters ResetStats zeroes are written by
\* no other call modelled here
Shutdown ==
  /\ last.n < MaxPactOps
  /\ router' = [router EXCEPT !.PACTRouter.hotPaths = <<>>]
  /\ last' = Changed("Shutdown", <<>>)
  /\ ret' = [op |-> "Shutdown"]
  /\ UNCHANGED <<root, calls, mu, writer, readers, committed, nodes, legacy, bt, pg>>

Lookup(path) ==
  /\ ret' = [op |-> "Lookup", path |-> path,
             cached |-> path \in DOMAIN router.PACTRouter.hotPaths,
             result |-> LookupResult(router.PACTRouter, nodes, path)]
  /\ UNCHANGED <<root, calls, mu, writer, readers, committed, pactVars, legacy, bt, pg>>

ConcurrentLookup(path) ==
  /\ ret' = [op |-> "ConcurrentLookup", path |-> path,
             result |-> ConcurrentLookupResult(router, nodes, path)]
  /\ UNCHANGED <<root, calls, mu, writer, readers, committed, pactVars, legacy, bt, pg>>

CalculateAccessScore(route) ==
  /\ ret' = [op |-> "calculateAccessScore", route |-> route,
             score |-> calculateAccessScore(route)]
  /\ UNCHANGED <<root, calls, mu, writer, readers, committed, pactVars, legacy, bt, pg>>

\* the routes calculateAccessScore is called on by itself
ScoreRoutes ==
  PactRoutes \cup
  { [Path |-> <<"/", "a", "p", "i", "/", "u">>,
     Method |-> "POST", Handler |-> "createUser"],
    [Path |-> <<"/", "u", "/", ":", "i", "/", "a", "/", ":", "a">>,
     Method |-> "DELETE", Handler |-> "removeItem"] }

NextPact ==
  \/ \E routes \in RouteLists : Build(routes)
  \/ \E route \in PactRoutes : PACTAddRoute(route)
  \/ \E route \in PactRoutes : UpdateRoute(route)
  \/ \E routes \in RouteLists : BatchUpdate(routes)
  \/ Shutdown
  \/ \E path \in PactRequests : Lookup(path)
  \/ \E path \in PactRequests : ConcurrentLookup(path)
  \/ \E route \in ScoreRoutes : CalculateAccessScore(route)

SpecPact == InitPact /\ [][NextPact]_vars

---------------------------------------------------------------------------
(* Properties of the PACT router *)

\* the result of the full traversal root.lookup(path), as Lookup reports it
TraverseResult(path) ==
  LET node == lookup(nodes, router.PACTRouter.root, path)
  IN IF node # NilNode THEN getHandler(nodes, node) ELSE NilHandler

\* path is an instance of the Path of one of routes
InstanceOfSome(routes, path) ==
  \E k \in 1..Len(routes) : Instantiates(routes[k].Path, path)

\* C14: after Build(routes) on a new router, Lookup(path) returns a handler
\* exactly for the paths that instantiate the Path of one of the routes
C14_LookupExactlyRegistered ==
  (last.op = "Build" /\ last.n = 1) =>
    \A p \in PactPaths :
      (LookupResult(router.PACTRouter, nodes, p) # NilHandler)
        <=> InstanceOfSome(last.routes, p)

\* C15: the hot-path cache never holds more entries than the capacity of the
\* router's configuration, HotPathCacheSize (32 when none was given)
C15_CacheWithinCapacity ==
  Cardinality(DOMAIN router.PACTRouter.hotPaths) <= router.config.HotPathCacheSize

IsHotList(list, routes, threshold) ==
  LET hot == {k \in 1..Len(routes) : calculateAccessScore(routes[k]) >= threshold}
  IN \E f \in [1..Len(list) -> hot] :
       /\ \A k \in hot : \E i \in 1..Len(list) : f[i] = k
       /\ \A i, j \in 1..Len(list) : i # j => f[i] # f[j]
       /\ \A i \in 1..Len(list) : list[i] = routes[f[i]].Path
       /\ \A i \in 1..(Len(list) - 1) :
            calculateAccessScore(routes[f[i]]) >= calculateAccessScore(routes[f[i + 1]])

\* C17: after the analysis of routes on a new router the hot-path list holds
\* exactly the routes scoring at least the configured HotPathThreshold, the
\* highest score first
C17_HotListByScore ==
  (last.op = "Build" /\ last.n = 1) =>
    IsHotList(router.PACTRouter.analyzer.hotPaths, last.routes,
              router.config.HotPathThreshold)

C19_ConcurrentLookupAgrees ==
  last.op = "Build" =>
    \A p \in PactPaths :
      ConcurrentLookupResult(router, nodes, p)
        = LookupResult(router.PACTRouter, nodes, p)

\* C20: after BatchUpdate(routes) the published root is a built one, every
\* cache entry is a path of routes, and the routes under /api/ resolve by
\* Lookup and by ConcurrentLookup
C20_BatchUpdatePublishes ==
  last.op = "BatchUpdate" =>
    /\ router.config.ConcurrentAccess => router.root # NilNode
    /\ \A p \in DOMAIN router.PACTRouter.hotPaths :
         \E k \in 1..Len(last.routes) : last.routes[k].Path = p
    /\ \A k \in 1..Len(last.routes) :
         HasPrefix(last.routes[k].Path, <<"/", "a", "p", "i", "/">>) =>
           /\ LookupResult(router.PACTRouter, nodes, last.routes[k].Path) # NilHandler
           /\ ConcurrentLookupResult(router, nodes, last.routes[k].Path) # NilHandler

---------------------------------------------------------------------------
(* The first router (src/router.go, src/constants.go): Register and        *)
(* ServeHTTP.  A handler is the name of the function passed.               *)

MaxRegs == 2

\* the RouterOption values a router is made from
Options ==
  [NotFoundHandler : {NilHandler, "customNotFound"},
   MethodNotAllowed : {NilHandler, "customMethodNotAllowed"}]

\* the Register calls: path, method, handler
RegInputs ==
  { <<<<"/">>, "GET", "getRoot">>,
    <<<<"/", "a", "/">>, "GET", "getA">>,
    <<<<"/", ":", "x", "/">>, "POST", "postX">>,
    <<<<"/", "a", "x", "/", ":", "x", "/">>, "GET", "getAxX">>,
    <<<<"/", "a", "/", "*", "/">>, "GET", "getUnderA">>,
    <<<<"/", "b", "/", ":", "x", "/", "*", "/">>, "GET", "getUnderBX">>,
    <<<<"/", "a">>, "GET", "getBad">> }

\* the requests served: method, path
LegacyRequests ==
  { <<"GET",  <<"/", "a", "/">>>>,
    <<"POST", <<"/", "a", "/">>>>,
    <<"GET",  <<"/", "a">>>>,
    <<"GET",  <<"/", "b", "/", "b", "/">>>>,
    <<"GET",  <<"/", "a", "/", "b", "/", "a">>>>,
    <<"GET",  <<>>>> }

\* the request paths the properties range over
LegacyPaths ==
  {rq[2] : rq \in LegacyRequests} \cup
  { <<"/">>,
    <<"/", "b", "/">>,
    <<"/", "a", "x", "/", "b", "/">>,
    <<"/", "a", "/", "b", "/">>,
    <<"/", "b", "/", "a", "/", "a", "/">>,
    <<"/", "b", "/", "a", "/", "b">> }

HasSuffix(s, suffix) ==
  Len(s) >= Len(suffix) /\ SubSeq(s, Len(s) - Len(suffix) + 1, Len(s)) = suffix

\* getPathInfo: delegateRegex, \/((.?)*\/)*\*\/$, asks for "/*/" at the end;
\* hasParamsRegex, \:(\w|\d)*, for a colon anywhere; the names are the
\* matches of getURLParamsRegex without the colon and the slash
getPathInfo(path) ==
  LET hasParams == Contains(path, ":")
      found == getURLParams(path, 1)
  IN [hasParams |-> hasParams,
      isDelegate |-> HasSuffix(path, <<"/", "*", "/">>),
      URLParams |-> IF hasParams
                    THEN [k \in 1..Len(found) |->
                            SubSeq(found[k], 2, Len(found[k]) - 1)]
                    ELSE <<>>]

\* router.Register: the panic of validatePath, or the router with the route
RegisterResult(rt, path0, method, handler) ==
  IF validatePathPanics(path0) THEN [panic |-> TRUE, r |-> rt]
  ELSE LET path == IF path0 = <<>> THEN <<"/">> ELSE path0
           info == getPathInfo(path)
           group == IF path \in DOMAIN rt.routes THEN rt.routes[path]
                    ELSE [routes |-> <<>>,
                          pathArr |-> Split(path),
                          params |-> info.URLParams,
                          isDelegate |-> info.isDelegate,
                          hasParams |-> info.hasParams]
           rTemp == [group EXCEPT
                       !.routes = Append(group.routes,
                                         [handler |-> handler, method |-> method])]
       IN [panic |-> FALSE,
           r |-> [rt EXCEPT !.routes =
                    [p \in DOMAIN rt.routes \cup {path} |->
                       IF p = path THEN rTemp ELSE rt.routes[p]]]]

\* prepareRequestPath; validateRequestPathRegex, ^(.?)*\/$, asks for a slash
\* at the end
prepareRequestPath(path0) ==
  LET path == IF path0 = <<>> THEN <<"/">> ELSE path0
  IN IF path # <<"/">> /\ Len(path) > 1 /\ path[Len(path)] # "/"
     THEN Append(path, "/")
     ELSE path

RECURSIVE checkMatched(_, _, _, _)
\* the closure of matchPath from index i of pathArr on
checkMatched(pathArr, params, splitedReq, i) ==
  IF i > Len(pathArr) THEN TRUE
  ELSE IF pathArr[i] = <<"*">> THEN TRUE
  ELSE IF i > Len(splitedReq) THEN FALSE
  ELSE IF pathArr[i] # splitedReq[i] /\ ~isParamKey(params, pathArr[i]) THEN FALSE
  ELSE checkMatched(pathArr, params, splitedReq, i + 1)

\* one round of the loop of matchPath returns the group
GroupMatches(routePath, routegp, reqPath) ==
  \/ reqPath = routePath
  \/ /\ \/ routegp.isDelegate
        \/ routegp.hasParams /\ Len(Split(reqPath)) = Len(routegp.pathArr)
     /\ checkMatched(routegp.pathArr, routegp.params, Split(reqPath), 1)

\* the route paths matchPath can return the group of: the map is ranged over
\* in an order the language leaves open, and the first match is returned
Matching(routes, reqPath) ==
  {p \in DOMAIN routes : GroupMatches(p, routes[p], reqPath)}

\* router.matchMethod: the handler of the first route with the method
matchMethod(r, method) ==
  LET hits == {i \in 1..Len(r) : r[i].method = method}
  IN IF hits = {} THEN [err |-> TRUE, handler |-> NilHandler]
     ELSE [err |-> FALSE,
           handler |-> r[CHOOSE i \in hits : \A j \in hits : i <= j].handler]

\* what router.ServeHTTP does when matchPath returns the group of routePath
Served(rt, routePath, method) ==
  LET m == matchMethod(rt.routes[routePath].routes, method)
  IN IF m.err THEN [status |-> "405", invoked |-> rt.methodNotAllowed]
     ELSE [status |-> "route", invoked |-> m.handler]

RECURSIVE RouteCount(_, _)
\* the number of routes in the groups of the paths in ps
RouteCount(routes, ps) ==
  IF ps = {} THEN 0
  ELSE LET p == CHOOSE q \in ps : TRUE
       IN Len(routes[p].routes) + RouteCount(routes, ps \ {p})

Register(path, method, handler) ==
  /\ RouteCount(legacy.r.routes, DOMAIN legacy.r.routes) < MaxRegs
  /\ LET res == RegisterResult(legacy.r, path, method, handler)
     IN /\ legacy' = [legacy EXCEPT !.r = res.r]
        /\ ret' = [op |-> "Register", path |-> path, panic |-> res.panic]
  /\ UNCHANGED <<root, calls, mu, writer, readers, committed, pactVars, bt, pg>>

LegacyServeHTTP(method, path) ==
  /\ LET reqPath == prepareRequestPath(path)
         found == Matching(legacy.r.routes, reqPath)
     IN IF found = {}
        THEN ret' = [op |-> "LegacyServeHTTP", method |-> method, path |-> path,
                     group |-> <<>>, status |-> "404",
                     invoked |-> legacy.r.notFoundHandler]
        ELSE \E routePath \in found :
               ret' = [op |-> "LegacyServeHTTP", method |-> method, path |-> path,
                       group |-> <<routePath>>,
                       status |-> Served(legacy.r, routePath, method).status,
                       invoked |-> Served(legacy.r, routePath, method).invoked]
  /\ UNCHANGED <<root, calls, mu, writer, readers, committed, pactVars, legacy, bt, pg>>

InitLegacyAny ==
  /\ InitTree
  /\ InitRouter(NilConfig)
  /\ \E opts \in Options : InitLegacy(opts)
  /\ InitByteTree

NextLegacy ==
  \/ \E in \in RegInputs : Register(in[1], in[2], in[3])
  \/ \E rq \in LegacyRequests : LegacyServeHTTP(rq[1], rq[2])

SpecLegacy == InitLegacyAny /\ [][NextLegacy]_vars

---------------------------------------------------------------------------
(* Properties of the first router *)

\* the handlers the options ask for in the 404 and in the 405 case
WantedNotFound ==
  IF legacy.opts.NotFoundHandler # NilHandler
  THEN legacy.opts.NotFoundHandler ELSE "notFound"

WantedMethodNotAllowed ==
  IF legacy.opts.MethodNotAllowed # NilHandler
  THEN legacy.opts.MethodNotAllowed ELSE "notNotAllowed"

\* C21: ServeHTTP invokes the not-found handler exactly when no registered
\* path matches the request, and the method-not-allowed handler exactly when
\* the matched path has no route for the method; the handlers given as
\* RouterOption.NotFoundHandler and RouterOption.MethodNotAllowed are the
\* ones used
C21_ErrorHandlers ==
  ret.op = "LegacyServeHTTP" =>
    LET found == Matching(legacy.r.routes, prepareRequestPath(ret.path))
    IN /\ (ret.invoked = WantedNotFound) <=> (found = {})
       /\ (ret.invoked = WantedMethodNotAllowed) <=>
            /\ ret.group # <<>>
            /\ matchMethod(legacy.r.routes[ret.group[1]].routes, ret.method).err

\* the request path req is an instance of pattern: segment for segment up to
\* a "*" segment, or up to the end with as many segments on both sides
LegacyAccepts(pattern, req) ==
  LET ps == Split(pattern)
      rs == Split(req)
      stars == {i \in 1..Len(ps) : ps[i] = <<"*">>}
      fits(i) == i <= Len(rs) /\ (IsParamSeg(ps[i]) \/ ps[i] = rs[i])
  IN IF stars = {}
     THEN Len(ps) = Len(rs) /\ \A i \in 1..Len(ps) : fits(i)
     ELSE \A i \in 1..((CHOOSE k \in stars : \A j \in stars : k <= j) - 1) : fits(i)

\* C22: matchPath accepts a request path for a registered pattern exactly
\* when the two have the same number of segments and each segment of the
\* pattern that is no ":name" parameter equals the request's; a pattern
\* ending in "*/" is compared up to the "*" only
C22_MatchPathBySegments ==
  \A p \in DOMAIN legacy.r.routes :
    \A q \in LegacyPaths :
      GroupMatches(p, legacy.r.routes[p], prepareRequestPath(q))
        <=> LegacyAccepts(p, prepareRequestPath(q))

\* C30: the outcome of ServeHTTP for a request depends on the routes and the
\* request only: whichever matching group matchPath returns, the same
\* handler is invoked
C30_OutcomeIsAFunction ==
  \A rq \in LegacyRequests :
    \A p1, p2 \in Matching(legacy.r.routes, prepareRequestPath(rq[2])) :
      Served(legacy.r, p1, rq[1]) = Served(legacy.r, p2, rq[1])

---------------------------------------------------------------------------
(* Further properties of the matching tree *)

RECURSIVE ConflictSegs(_, _)
\* the segment lists ps and qs reach the same tree position and name the
\* parameter there differently
ConflictSegs(ps, qs) ==
  IF ps = <<>> \/ qs = <<>> THEN FALSE
  ELSE IF IsParamSeg(ps[1]) /\ IsParamSeg(qs[1])
       THEN ps[1] # qs[1] \/ ConflictSegs(Tail(ps), Tail(qs))
  ELSE ps[1] = qs[1] /\ ~IsWildSeg(ps[1]) /\ ConflictSegs(Tail(ps), Tail(qs))

ParamConflict(pattern1, pattern2) ==
  /\ ~BadPath(pattern1)
  /\ ~BadPath(pattern2)
  /\ ConflictSegs(Split(Tail(pattern1)), Split(Tail(pattern2)))

\* C23: an Add whose pattern names a parameter differently from a pattern
\* registered before at the same tree position fails, and a match of the
\* later route never reports its values under the earlier name
C23_ParamNameConflictRejected ==
  \A i, j \in 1..Len(calls) :
    (i < j /\ ~calls[i].panic /\ ParamConflict(calls[i].path, calls[j].path)) =>
      /\ calls[j].panic
      /\ \A p \in FindPaths :
           LET res == FindResult(root, calls[j].method, p)
           IN res.h = calls[j].handler =>
                \A k \in 1..Len(res.ps) :
                  \E seg \in {Split(calls[j].path)[n] : n \in 1..Len(Split(calls[j].path))} :
                    (IsParamSeg(seg) \/ IsWildSeg(seg)) /\ res.ps[k].Key = Tail(seg)


RECURSIVE AllNodes(_)
\* the node n and every node below it
AllNodes(n) ==
  {n} \cup UNION {AllNodes(n.children[i]) : i \in 1..Len(n.children)}
      \cup (IF n.paramChild = Nil THEN {} ELSE AllNodes(n.paramChild[1]))
      \cup (IF n.wildChild = Nil THEN {} ELSE AllNodes(n.wildChild[1]))

NodeWellFormed(n) ==
  /\ Len(n.indices) = Len(n.children)
  /\ \A i \in 1..Len(n.children) :
       /\ n.children[i].path # <<>>
       /\ n.indices[i] = n.children[i].path[1]
  /\ \A i, j \in 1..Len(n.children) :
       i # j => n.children[i].path[1] # n.children[j].path[1]

\* C24: in every reachable tree every node has as many index bytes as literal
\* children, each index byte is the first byte of its child's fragment, every
\* literal child has a non-empty fragment and no two literal children of a
\* node begin with the same byte
C24_NodeInvariants == \A n \in AllNodes(root) : NodeWellFormed(n)


NodeSorted(n) ==
  \A i \in 1..Len(n.children) - 1 :
    n.children[i].priority >= n.children[i + 1].priority

\* the <<index byte, literal child>> pairs of every node of the tree t
IndexedChildren(t) ==
  UNION {{<<n.indices[i], n.children[i]>> : i \in 1..Len(n.children)} : n \in AllNodes(t)}

\* the Add calls alone: the sort is a step of Add and of no other call
NextAdds == \E in \in AddInputs : Add(in[1], in[2])

SpecAdds == Init /\ [][NextAdds]_vars

\* an Add step that returned normally
AddStep ==
  /\ Len(calls') = Len(calls) + 1
  /\ ~calls'[Len(calls')].panic

\* the tree of an Add step as addRoute leaves it, before updatePriority
Unsorted ==
  LET c == calls'[Len(calls')]
  IN addRoute(root, c.method, Tail(c.path), c.handler)

\* C25: after every Add the literal children of every node are in
\* non-increasing order of priority, every child is still paired with its index
\* byte, and the reordering changes the handler and the parameter values of no
\* request
C25_PrioritySortPreserves ==
  [][AddStep =>
       /\ \A n \in AllNodes(root') : NodeSorted(n)
       /\ IndexedChildren(root')
            = {<<p[1], updatePriority(p[2])>> : p \in IndexedChildren(Unsorted)}
       /\ \A m \in Methods, p \in FindPaths :
            FindResult(root', m, p) = FindResult(Unsorted, m, p)]_vars

\* an Add has reordered the literal children of the root: addChild inserts in
\* ascending order of the index byte, and here a greater byte comes first
C25_Witness ==
  /\ ret.op = "Add" /\ ~ret.panic
  /\ \E i \in 1..Len(root.children) - 1 :
       /\ Ord(root.indices[i]) > Ord(root.indices[i + 1])
       /\ root.children[i].priority > root.children[i + 1].priority


---------------------------------------------------------------------------
(* Further properties of the PACT router *)

PathsOf(routes) == {routes[k].Path : k \in 1..Len(routes)}

\* C26: after every Build and every BatchUpdate the hot-path list and the
\* hot-path cache hold paths of the routes of that call only, and the list
\* holds no path twice
C26_RebuiltFromCallRoutes ==
  LET list == router.PACTRouter.analyzer.hotPaths
  IN (last.op \in {"Build", "BatchUpdate"}) =>
       /\ \A i \in 1..Len(list) : list[i] \in PathsOf(last.routes)
       /\ \A p \in DOMAIN router.PACTRouter.hotPaths : p \in PathsOf(last.routes)
       /\ \A i, j \in 1..Len(list) : i # j => list[i] # list[j]


---------------------------------------------------------------------------
(* The byte-level tree: radixTree.Add call by call.  The nodes are kept in
   bt.nodes and a pointer is an index into it; addRoute calls itself only as
   its last statement, so the call in progress is the node bt.cur and the rest
   of the pattern bt.path *)

MaxByteAdds == 2
MaxSteps == 12

ByteAddInputs ==
  { <<"GET", <<"/">>>>,
    <<"GET", <<"/", ":", "x">>>>,
    <<"POST", <<"/", ":", "x">>>>,
    <<"GET", <<"/", "*", "w">>>>,
    <<"GET", <<"/", ":", "x", "/", ":", "y">>>>,
    <<"GET", <<"/", "a">>>>,
    <<"GET", <<"/", ":", "x", "/", "a", "b">>>>,
    <<"GET", <<"a">>>> }

\* return from the outermost addRoute: Add goes on to updatePriority
byteReturn(b) == [b EXCEPT !.pc = "updatePriority"]

\* n.methods[method] = handler on the node k
byteSetMethod(b, k) ==
  [b EXCEPT !.nodes[k] = SetMethod(b.nodes[k], b.method, b.handler)]

\* the split of the byte-level insertStaticRoute: the rest of the node's
\* fragment moves to a new node, the only child of the node from then on
byteSplit(b, i, path) ==
  LET n == b.nodes[b.cur]
      child == [path |-> From(n.path, i), nType |-> n.nType,
                paramName |-> <<>>, methods |-> n.methods,
                children |-> n.children, indices |-> n.indices,
                wildChild |-> n.wildChild, paramChild |-> n.paramChild,
                priority |-> n.priority - 1]
      k == Len(b.nodes) + 1
  IN [b EXCEPT !.nodes = Append([b.nodes EXCEPT ![b.cur] =
                 [n EXCEPT !.children = <<k>>,
                           !.indices = <<n.path[i + 1]>>,
                           !.path = UpTo(path, i),
                           !.methods = NoMethods,
                           !.wildChild = Nil,
                           !.paramChild = Nil]], child)]

byteInsertStaticRoute(b) ==
  LET i == commonPrefixLen(b.path, b.nodes[b.cur].path)
      b1 == IF i < Len(b.nodes[b.cur].path) THEN byteSplit(b, i, b.path) ELSE b
  IN
  IF i < Len(b.path)
  THEN LET path == From(b.path, i)
           c == path[1]
           j == IndexOf(b1.nodes[b1.cur].indices, c)
       IN IF j # 0
          THEN [b1 EXCEPT !.cur = b1.nodes[b1.cur].children[j], !.path = path]
          ELSE LET k == Len(b1.nodes) + 1
               IN [b1 EXCEPT
                     !.nodes = Append([b1.nodes EXCEPT ![b1.cur] =
                                          addChild(b1.nodes[b1.cur], k, c)],
                                      NewNode("static", <<>>)),
                     !.cur = k,
                     !.path = path]
  ELSE byteReturn(byteSetMethod(b1, b1.cur))

byteInsertParamRoute(b) ==
  LET n == b.nodes[b.cur]
      end == SegEnd(b.path, 1)
      paramName == SubSeq(b.path, 2, end)
      k == IF n.paramChild = Nil THEN Len(b.nodes) + 1 ELSE n.paramChild[1]
      b1 == IF n.paramChild = Nil
            THEN [b EXCEPT !.nodes = Append([b.nodes EXCEPT ![b.cur].paramChild = <<k>>],
                                            NewNode("param", paramName))]
            ELSE b
  IN IF end < Len(b.path)
     THEN [b1 EXCEPT !.cur = k, !.path = From(b.path, end + 1)]
     ELSE byteReturn(byteSetMethod(b1, k))

byteInsertWildcardRoute(b) ==
  LET n == b.nodes[b.cur]
      end == SegEnd(b.path, 1)
      paramName == SubSeq(b.path, 2, end)
      k == IF n.wildChild = Nil THEN Len(b.nodes) + 1 ELSE n.wildChild[1]
      b1 == IF n.wildChild = Nil
            THEN [b EXCEPT !.nodes = Append([b.nodes EXCEPT ![b.cur].wildChild = <<k>>],
                                            NewNode("wildcard", paramName))]
            ELSE b
  IN byteReturn(byteSetMethod(b1, k))

\* one call of the byte-level addRoute on the node bt.cur with the path bt.path,
\* up to its return or to the call it ends with
byteAddRoute(b0) ==
  LET b == [b0 EXCEPT !.nodes[b0.cur].priority = @ + 1]
  IN IF b.path = <<>> THEN byteReturn(byteSetMethod(b, b.cur))
     ELSE IF b.path[1] = ":" THEN byteInsertParamRoute(b)
     ELSE IF b.path[1] = "*" THEN byteInsertWildcardRoute(b)
     ELSE byteInsertStaticRoute(b)

\* updatePriority on the nodes of the byte-level tree: every node is below the
\* root, and the sort of a node moves only its own children and indices
byteUpdatePriority(ns) ==
  [k \in 1..Len(ns) |->
     LET n == ns[k]
         c == Len(n.children)
         rank(i) == Cardinality({j \in 1..c :
                       \/ ns[n.children[j]].priority > ns[n.children[i]].priority
                       \/ /\ ns[n.children[j]].priority = ns[n.children[i]].priority
                          /\ j < i}) + 1
         at(r) == CHOOSE i \in 1..c : rank(i) = r
     IN [n EXCEPT !.children = [r \in 1..c |-> n.children[at(r)]],
                  !.indices = [r \in 1..c |-> n.indices[at(r)]]]]

\* Add up to its first call of addRoute, or its panic
ByteAdd(method, path) ==
  /\ bt.pc = "idle"
  /\ bt.adds < MaxByteAdds
  /\ IF path = <<>> \/ path[1] # "/"
     THEN /\ bt' = [bt EXCEPT !.adds = @ + 1]
          /\ ret' = [op |-> "ByteAdd", panic |-> TRUE]
     ELSE /\ bt' = [bt EXCEPT !.pc = "addRoute", !.cur = 1, !.method = method,
                              !.pattern = path, !.path = Tail(path),
                              !.handler = bt.adds + 1, !.steps = 0]
          /\ ret' = [op |-> "none"]
  /\ UNCHANGED <<root, calls, mu, writer, readers, committed, pactVars, legacy, pg>>

\* the next call of addRoute; MaxSteps calls end the exploration of one Add
ByteAddRoute ==
  /\ bt.pc = "addRoute"
  /\ bt.steps < MaxSteps
  /\ bt' = byteAddRoute([bt EXCEPT !.steps = @ + 1])
  /\ UNCHANGED <<treeVars, pactVars, legacy, pg>>

\* the rest of Add: updatePriority on the root, and the return
ByteUpdatePriority ==
  /\ bt.pc = "updatePriority"
  /\ bt' = [bt EXCEPT !.nodes = byteUpdatePriority(bt.nodes), !.pc = "idle",
                      !.adds = @ + 1]
  /\ ret' = [op |-> "ByteAdd", panic |-> FALSE]
  /\ UNCHANGED <<root, calls, mu, writer, readers, committed, pactVars, legacy, pg>>

NextByteTree ==
  \/ \E in \in ByteAddInputs : ByteAdd(in[1], in[2])
  \/ ByteAddRoute
  \/ ByteUpdatePriority

SpecByteTree == Init /\ [][NextByteTree]_vars

\* C27: every Add terminates: a call of addRoute consumes a byte of the
\* pattern, or descends to a child whose call does, so an Add of a pattern of
\* n bytes never makes more than 2 * n calls of addRoute
C27_AddTerminates ==
  bt.pc = "addRoute" => bt.steps <= 2 * Len(bt.pattern)


---------------------------------------------------------------------------
(* The AdvancedPACTRouter under two goroutines: one calls Lookup or
   ConcurrentLookup, the other BatchUpdate, UpdateRoute or Shutdown.  Neither
   takes a lock, so every read and every write of a field is a step *)

LookupCalls == {"Lookup", "ConcurrentLookup"}

\* GetUsers is hot under every configuration and is cached, UpdateUser is not
SharedRouteLists == {<<GetUsers>>, <<UpdateUser>>}

SharedRoutes == {UpdateUser}

SharedPaths == {GetUsers.Path, <<"/", "a", "p", "i", "/", "a">>}

\* Build before the router is shared
SetupBuild(routes) ==
  /\ last.n = 0
  /\ pg.reader.pc = "idle" /\ pg.writer.pc = "idle"
  /\ LET res == BuildResult(router.PACTRouter, nodes, routes)
     IN /\ router' = [router EXCEPT !.PACTRouter = res.r]
        /\ nodes' = res.ns
        /\ pg' = [pg EXCEPT !.snaps = {Snapshot([router EXCEPT !.PACTRouter = res.r])}]
  /\ last' = Changed("Build", routes)
  /\ ret' = [op |-> "Build"]
  /\ UNCHANGED <<root, calls, mu, writer, readers, committed, legacy, bt>>

\* the fields the writer's next step assigns
WriterWrites ==
  CASE pg.writer.pc = "store" -> pg.writer.pending
    [] pg.writer.pc = "clear" -> {"hotPaths"}
    [] pg.writer.pc = "insert" -> {"node"}
    [] OTHER -> {}

\* the call of Lookup or ConcurrentLookup up to its first read of a field a
\* writer assigns: ConcurrentLookup reads config, and with ConcurrentAccess
\* loads the atomic root and returns nil when that is nil
CallLookup(call, path) ==
  /\ pg.reader.pc = "idle"
  /\ pg' = [pg EXCEPT !.reader =
       IF call = "ConcurrentLookup" /\ router.config.ConcurrentAccess
       THEN IF router.root = NilNode
            THEN [pc |-> "done", call |-> call, path |-> path, versioned |-> TRUE,
                  node |-> NilNode, seen |-> {}, raced |-> FALSE,
                  result |-> NilHandler]
            ELSE [pc |-> "cache", call |-> call, path |-> path, versioned |-> TRUE,
                  node |-> router.root, seen |-> {}, raced |-> FALSE,
                  result |-> NilHandler]
       ELSE [pc |-> "cache", call |-> call, path |-> path, versioned |-> FALSE,
             node |-> NilNode, seen |-> {}, raced |-> FALSE,
             result |-> NilHandler]]
  /\ UNCHANGED <<treeVars, pactVars, legacy, bt>>

\* "if node, ok := r.hotPaths[path]; ok" of Lookup and of lookupWithVersion
ReadCache ==
  /\ pg.reader.pc = "cache"
  /\ LET rd == pg.reader
         hot == router.PACTRouter.hotPaths
         rd1 == [rd EXCEPT !.seen = @ \cup {[field |-> "hotPaths", value |-> hot]},
                           !.raced = @ \/ "hotPaths" \in WriterWrites]
     IN pg' = [pg EXCEPT !.reader =
          IF rd.path \in DOMAIN hot
          THEN [rd1 EXCEPT !.pc = "done",
                           !.result = getHandler(nodes, hot[rd.path]),
                           !.raced = @ \/ "node" \in WriterWrites]
          ELSE [rd1 EXCEPT !.pc = "root"]]
  /\ UNCHANGED <<treeVars, pactVars, legacy, bt>>

\* the traversal: r.root.lookup(path) of Lookup, traverseWithVersion from the
\* loaded root of lookupWithVersion
ReadRoot ==
  /\ pg.reader.pc = "root"
  /\ LET rd == pg.reader
         r == router.PACTRouter.root
     IN pg' = [pg EXCEPT !.reader =
          IF rd.versioned
          THEN [rd EXCEPT !.pc = "done",
                          !.result = traverseWithVersion(nodes, rd.node, rd.path),
                          !.raced = @ \/ "node" \in WriterWrites]
          ELSE [rd EXCEPT !.pc = "done",
                          !.seen = @ \cup {[field |-> "root", value |-> r]},
                          !.result = LET node == lookup(nodes, r, rd.path)
                                     IN IF node # NilNode THEN getHandler(nodes, node)
                                        ELSE NilHandler,
                          !.raced = @ \/ ({"root", "node"} \cap WriterWrites # {})]]
  /\ UNCHANGED <<treeVars, pactVars, legacy, bt>>

ReturnLookup ==
  /\ pg.reader.pc = "done"
  /\ pg' = [pg EXCEPT !.reader = Idle]
  /\ ret' = [op |-> pg.reader.call, path |-> pg.reader.path,
             result |-> pg.reader.result]
  /\ UNCHANGED <<root, calls, mu, writer, readers, committed, pactVars, legacy, bt>>

\* BatchUpdate up to its assignment: the new router is built; with
\* ConcurrentAccess the atomic root is stored, without it the three fields of
\* PACTRouter are copied, in an order the compiler chooses
CallBatchUpdate(routes) ==
  /\ pg.writer.pc = "idle"
  /\ last.n < MaxPactOps
  /\ LET res == BatchUpdateResult(router, nodes, routes)
     IN /\ nodes' = res.ns
        /\ pg' = [pg EXCEPT !.writer =
             [pc |-> "store", op |-> "BatchUpdate", routes |-> routes,
              new |-> res.r,
              pending |-> IF router.config.ConcurrentAccess THEN {"atomicRoot"}
                          ELSE {"root", "hotPaths", "analyzer"}]]
  /\ UNCHANGED <<treeVars, router, last, legacy, bt>>

\* the writer has returned: the router is in the state the next lookups find
Returned(rt, w) ==
  [pg EXCEPT !.writer = Idle, !.snaps = @ \cup {Snapshot(rt)}]

StoreField(f) ==
  /\ pg.writer.pc = "store"
  /\ f \in pg.writer.pending
  /\ LET w == pg.writer
         rt == IF f = "atomicRoot" THEN [router EXCEPT !.root = w.new.root]
               ELSE [router EXCEPT !.PACTRouter[f] = w.new.PACTRouter[f]]
     IN /\ router' = rt
        /\ IF w.pending = {f}
           THEN /\ pg' = Returned(rt, w)
                /\ last' = Changed("BatchUpdate", w.routes)
           ELSE /\ pg' = [pg EXCEPT !.writer.pending = @ \ {f}]
                /\ last' = last
  /\ UNCHANGED <<treeVars, nodes, legacy, bt>>

CallShutdown ==
  /\ pg.writer.pc = "idle"
  /\ last.n < MaxPactOps
  /\ pg' = [pg EXCEPT !.writer = [pc |-> "clear", op |-> "Shutdown"]]
  /\ UNCHANGED <<treeVars, pactVars, legacy, bt>>

\* r.hotPaths = make(map[string]*PACTNode), then ResetStats and the return
ClearCache ==
  /\ pg.writer.pc = "clear"
  /\ router' = [router EXCEPT !.PACTRouter.hotPaths = <<>>]
  /\ pg' = Returned([router EXCEPT !.PACTRouter.hotPaths = <<>>], pg.writer)
  /\ last' = Changed("Shutdown", <<>>)
  /\ UNCHANGED <<treeVars, nodes, legacy, bt>>

CallUpdateRoute(route) ==
  /\ pg.writer.pc = "idle"
  /\ last.n < MaxPactOps
  /\ pg' = [pg EXCEPT !.writer = [pc |-> "insert", op |-> "UpdateRoute",
                                  route |-> route]]
  /\ UNCHANGED <<treeVars, pactVars, legacy, bt>>

\* r.root.insert(route.Path, route.Handler) of AddRoute, and the return
InsertRoute ==
  /\ pg.writer.pc = "insert"
  /\ nodes' = insert(nodes, router.PACTRouter.root, pg.writer.route.Path,
                     pg.writer.route.Handler)
  /\ pg' = Returned(router, pg.writer)
  /\ last' = Changed("UpdateRoute", <<pg.writer.route>>)
  /\ UNCHANGED <<treeVars, router, legacy, bt>>

NextPactConc ==
  \/ \E routes \in SharedRouteLists : SetupBuild(routes)
  \/ \E call \in LookupCalls, path \in SharedPaths : CallLookup(call, path)
  \/ ReadCache
  \/ ReadRoot
  \/ ReturnLookup
  \/ \E routes \in SharedRouteLists : CallBatchUpdate(routes)
  \/ \E f \in {"root", "hotPaths", "analyzer", "atomicRoot"} : StoreField(f)
  \/ CallShutdown
  \/ ClearCache
  \/ \E route \in SharedRoutes : CallUpdateRoute(route)
  \/ InsertRoute

SpecPactConc == InitPact /\ [][NextPactConc]_vars

\* the lookup has read the cache and the root, and no state the router was in
\* between two calls of a writer has both
TornRead ==
  /\ pg.reader.pc = "done"
  /\ \E c, r \in pg.reader.seen :
       /\ c.field = "hotPaths" /\ r.field = "root"
       /\ [hotPaths |-> c.value, root |-> r.value] \notin pg.snaps

\* C28: a lookup that runs while BatchUpdate, UpdateRoute or Shutdown runs
\* reads no field at a moment the writer's next step assigns it, and the cache
\* and the root it has read are those of one state of the router between two
\* calls of a writer
C28_LookupSeesOneSnapshot ==
  /\ pg.reader.pc # "idle" => ~pg.reader.raced
  /\ ~TornRead


---------------------------------------------------------------------------
(* Registration order *)

\* the orders in which the calls of the set S can be made
Orders(S) ==
  {f \in [1..Cardinality(S) -> S] :
     \A i, j \in 1..Cardinality(S) : i # j => f[i] # f[j]}

RECURSIVE TreeOf(_, _)
\* the tree after the first k Add calls of order, each with the arguments and
\* the handler it had in calls
TreeOf(order, k) ==
  IF k = 0 THEN NewRadixTree
  ELSE LET c == calls[order[k]]
       IN AddResult(TreeOf(order, k - 1), c.method, c.path, c.handler).root

\* C29: for distinct (method, pattern) pairs, the tree of every order of the
\* Add calls made answers every Find as the tree of the order they were made in
C29_OrderIndependent ==
  DistinctPairs =>
    \A order \in Orders(Registered) :
      \A m \in Methods, p \in FindPaths :
        FindResult(TreeOf(order, Cardinality(Registered)), m, p)
          = FindResult(root, m, p)

=============================================================================
